---- MODULE Spec2Model ----
(***************************************************************************)
(* Shallow-water block solver (SWE_Block / SWE_DimensionalSplittingCharm): *)
(* a lattice of blocks, each owning a tile with a one-cell ghost halo,     *)
(* exchanging copy layers with its neighbours and agreeing on a time step  *)
(* by a global min-reduction.                                              *)
(*                                                                         *)
(* Numbers.  The code computes in single-precision floats.  Here a time    *)
(* (maxTimestep, currentSimulationTime, checkpoint instants) is an integer *)
(* count of 1/TimeDen seconds, with Inf standing for the float +infinity   *)
(* that a division by a zero wave speed produces; TimeDen is chosen so     *)
(* that every quotient the code forms from the modelled inputs is exact.   *)
(* A cell value (h, hu, hv, b) is an integer.                              *)
(***************************************************************************)
EXTENDS Integers, Sequences, FiniteSets, TLC

VARIABLES
    blockCountX, blockCountY,   \* lattice dimensions (launcher globals)
    nx, ny, dx, dy,             \* cells per block and cell sizes
    simulationDuration,         \* in 1/TimeDen seconds
    checkpointCount,
    ndebug,                     \* TRUE: built with NDEBUG, asserts compiled out
    scenario,                   \* the scenario the constructor samples
    boundaries,                 \* [block -> [edge -> type]] constructor argument
    boundaryType,               \* [block -> [edge -> type]]
    h, hu, hv, b,               \* [block -> flat column-major field]
    netUpdates,                 \* [block -> record of the eight net-update fields]
    maxTimestep,                \* [block -> time]
    currentSimulationTime,      \* [block -> time]
    currentCheckpoint,          \* [block -> Nat]
    pc,                         \* [block -> state of the per-step state machine]
    sent,                       \* [block -> BOOLEAN] copy layers of this phase sent
    received,                   \* [block -> set of edges unpacked in this phase]
    inbox,                      \* [block -> [edge -> queue of copy layers]]
    contribution,               \* [block -> contributed maxTimestep, or None]
    reduced,                    \* [block -> reduction result in flight, or None]
    aborted,                    \* a fatal assertion has ended the run
    phase,                      \* history: [block -> exchange phases begun]
    sendCount,                  \* history: [block -> [edge -> copy layers sent]]
    lastSent,                   \* history: [block -> [edge -> last copy layer sent]]
    lastRecv,                   \* history: [block -> [edge -> last consumption]]
    localDt,                    \* history: [block -> maxTimestep before the reduction]
    usedDt,                     \* history: [block -> dt of the last updateUnknowns]
    stepCount,                  \* history: [block -> updateUnknowns calls]
    waveSpeeds,                 \* history: [block -> max wave speeds of the last sweeps]
    written,                    \* history: [block -> times given to the writer]
    lastOp,                     \* history: the operation applied last
    sweep                       \* progress of the sweeps of one computeNumericalFluxes

configVars == <<blockCountX, blockCountY, nx, ny, dx, dy, simulationDuration,
                checkpointCount, ndebug, scenario, boundaries>>
fieldVars == <<h, hu, hv, b>>
protoVars == <<pc, sent, received, inbox, contribution, reduced, aborted>>
histVars == <<phase, sendCount, lastSent, lastRecv, localDt, usedDt, stepCount,
              waveSpeeds, written>>
vars == <<configVars, boundaryType, fieldVars, netUpdates, maxTimestep,
          currentSimulationTime, currentCheckpoint, protoVars, histVars, lastOp, sweep>>

(***************************************************************************)
(* Bounds of the model.                                                    *)
(***************************************************************************)
\* largest wave speed the external Riemann solver reports
MaxSpeed == 2
\* largest number of cells per direction in the single-operation specifications
MaxN == 2
\* largest checkpointCount
MaxCheckpoints == 2
\* largest cell size dx, dy of the time step computation
MaxSpacing == 4

(***************************************************************************)
(* Enumerations (types/Boundary.hh).                                       *)
(***************************************************************************)
Edges == {"BND_LEFT", "BND_RIGHT", "BND_BOTTOM", "BND_TOP"}
BoundaryTypes == {"WALL", "OUTFLOW", "CONNECT", "PASSIVE"}
None == "none"

Opposite(e) ==
    CASE e = "BND_LEFT" -> "BND_RIGHT"
      [] e = "BND_RIGHT" -> "BND_LEFT"
      [] e = "BND_BOTTOM" -> "BND_TOP"
      [] e = "BND_TOP" -> "BND_BOTTOM"

(***************************************************************************)
(* Float stand-ins.                                                        *)
(***************************************************************************)
Max(a, c) == IF a >= c THEN a ELSE c
Min(a, c) == IF a <= c THEN a ELSE c

RECURSIVE Gcd(_, _)
Gcd(a, c) == IF c = 0 THEN a ELSE Gcd(c, a % c)

RECURSIVE LcmUpTo(_)
LcmUpTo(n) == IF n <= 1 THEN 1 ELSE (LcmUpTo(n - 1) * n) \div Gcd(LcmUpTo(n - 1), n)

\* ticks per second: every dx / speed, 0.4 * q and 0.5 * q below is exact
TimeDen == 10 * LcmUpTo(MaxSpeed)

\* +infinity of the float arithmetic
Inf == 0 - 1

\* a / s for a float a > 0: +infinity when s is zero
FDiv(a, s) == IF s = 0 THEN Inf ELSE a \div s
FMin(a, c) == IF a = Inf THEN c ELSE IF c = Inf THEN a ELSE Min(a, c)
FLess(a, c) == IF a = Inf THEN FALSE ELSE IF c = Inf THEN TRUE ELSE a < c
FGeq(a, c) == ~FLess(a, c)
FLeq(a, c) == IF c = Inf THEN TRUE ELSE IF a = Inf THEN FALSE ELSE a <= c
FAdd(a, c) == IF a = Inf \/ c = Inf THEN Inf ELSE a + c
\* a * 0.4 and a * 0.5
FTimesCfl(a) == IF a = Inf THEN Inf ELSE (4 * a) \div 10
FHalf(a) == IF a = Inf THEN Inf ELSE a \div 2

(***************************************************************************)
(* Grid buffers: a field of (nx+2) x (ny+2) cells, column-major.           *)
(***************************************************************************)
Blocks == 0 .. (blockCountX * blockCountY - 1)
FieldLen == (nx + 2) * (ny + 2)
\* linear offset of field[x][y]
Offset(x, y) == x * (ny + 2) + y
\* *(field.getRawPointer() + off)
Raw(f, off) == f[off + 1]
At(f, x, y) == Raw(f, Offset(x, y))
\* the coordinates of the element at sequence index i
XOf(i) == (i - 1) \div (ny + 2)
YOf(i) == (i - 1) % (ny + 2)
Interior == (1 .. nx) \X (1 .. ny)
ZeroField == [i \in 1 .. FieldLen |-> 0]

\* the non-corner ghost strip of an edge, and the interior strip beside it
GhostX(e, k) == CASE e = "BND_LEFT" -> 0 [] e = "BND_RIGHT" -> nx + 1 [] OTHER -> k
GhostY(e, k) == CASE e = "BND_BOTTOM" -> 0 [] e = "BND_TOP" -> ny + 1 [] OTHER -> k
InnerX(e, k) == CASE e = "BND_LEFT" -> 1 [] e = "BND_RIGHT" -> nx [] OTHER -> k
InnerY(e, k) == CASE e = "BND_BOTTOM" -> 1 [] e = "BND_TOP" -> ny [] OTHER -> k
StripLen(e) == IF e \in {"BND_LEFT", "BND_RIGHT"} THEN ny ELSE nx

(***************************************************************************)
(* Boundary applier (SWE_Block.hh).  A grid g is a record of the four      *)
(* fields; bt is the block's boundaryType vector.                          *)
(***************************************************************************)
\* for(j = 1..ny) f[xg][j] = sign * f[xi][j]
ColumnFill(f, xg, xi, sign) ==
    [i \in 1 .. FieldLen |->
        IF XOf(i) = xg /\ YOf(i) \in 1 .. ny THEN sign * At(f, xi, YOf(i)) ELSE f[i]]

\* for(i = 1..nx) f[i][yg] = sign * f[i][yi]
RowFill(f, yg, yi, sign) ==
    [i \in 1 .. FieldLen |->
        IF YOf(i) = yg /\ XOf(i) \in 1 .. nx THEN sign * At(f, XOf(i), yi) ELSE f[i]]

\* memcpy(f[xg], f[xi], sizeof(float) * (ny + 2))
ColumnMemcpy(f, xg, xi) ==
    [i \in 1 .. FieldLen |-> IF XOf(i) = xg THEN At(f, xi, YOf(i)) ELSE f[i]]

\* for(i = 0..nx+1) f[i][yg] = f[i][yi]
RowCopyAll(f, yg, yi) ==
    [i \in 1 .. FieldLen |-> IF YOf(i) = yg THEN At(f, XOf(i), yi) ELSE f[i]]

\* the four corner assignments that end both boundary operations
Corners(f) ==
    [i \in 1 .. FieldLen |->
        CASE XOf(i) = 0 /\ YOf(i) = 0 -> At(f, 1, 1)
          [] XOf(i) = 0 /\ YOf(i) = ny + 1 -> At(f, 1, ny)
          [] XOf(i) = nx + 1 /\ YOf(i) = 0 -> At(f, nx, 1)
          [] XOf(i) = nx + 1 /\ YOf(i) = ny + 1 -> At(f, nx, ny)
          [] OTHER -> f[i]]

\* variant: the four corner cells are left as they were
BathymetryKeepsCorners(g, bt) ==
    LET b1 == IF bt["BND_LEFT"] \in {"OUTFLOW", "WALL"}
              THEN ColumnMemcpy(g.b, 0, 1) ELSE g.b
        b2 == IF bt["BND_RIGHT"] \in {"OUTFLOW", "WALL"}
              THEN ColumnMemcpy(b1, nx + 1, nx) ELSE b1
        b3 == IF bt["BND_BOTTOM"] \in {"OUTFLOW", "WALL"}
              THEN RowCopyAll(b2, 0, 1) ELSE b2
        b4 == IF bt["BND_TOP"] \in {"OUTFLOW", "WALL"}
              THEN RowCopyAll(b3, ny + 1, ny) ELSE b3
    IN  [g EXCEPT !.b = b4]

\* SWE_Block::applyBoundaryBathymetry
applyBoundaryBathymetry(g, bt) ==
    LET b1 == IF bt["BND_LEFT"] \in {"OUTFLOW", "WALL"}
              THEN ColumnMemcpy(g.b, 0, 1) ELSE g.b
        b2 == IF bt["BND_RIGHT"] \in {"OUTFLOW", "WALL"}
              THEN ColumnMemcpy(b1, nx + 1, nx) ELSE b1
        b3 == IF bt["BND_BOTTOM"] \in {"OUTFLOW", "WALL"}
              THEN RowCopyAll(b2, 0, 1) ELSE b2
        b4 == IF bt["BND_TOP"] \in {"OUTFLOW", "WALL"}
              THEN RowCopyAll(b3, ny + 1, ny) ELSE b3
    IN  [g EXCEPT !.b = Corners(b4)]

\* one edge's switch: WALL negates the normal momentum, OUTFLOW copies,
\* CONNECT and PASSIVE leave the strip alone
EdgeCondition(g, bt, e) ==
    LET t == bt[e]
        vertical == e \in {"BND_LEFT", "BND_RIGHT"}
        xg == GhostX(e, 0)
        xi == InnerX(e, 0)
        yg == GhostY(e, 0)
        yi == InnerY(e, 0)
        Fill(f, sign) == IF vertical THEN ColumnFill(f, xg, xi, sign)
                         ELSE RowFill(f, yg, yi, sign)
        normalSign == IF t = "WALL" THEN 0 - 1 ELSE 1
    IN  IF t \in {"WALL", "OUTFLOW"}
        THEN [g EXCEPT !.h = Fill(g.h, 1),
                       !.hu = Fill(g.hu, IF vertical THEN normalSign ELSE 1),
                       !.hv = Fill(g.hv, IF vertical THEN 1 ELSE normalSign)]
        ELSE g

\* variant: a WALL on the left edge is treated as an OUTFLOW
WallCopiesMomentum(g, bt) ==
    LET g1 == EdgeCondition(g, [e \in Edges |-> IF bt[e] = "WALL" THEN "OUTFLOW" ELSE bt[e]],
                            "BND_LEFT")
        g2 == EdgeCondition(g1, bt, "BND_RIGHT")
        g3 == EdgeCondition(g2, bt, "BND_BOTTOM")
        g4 == EdgeCondition(g3, bt, "BND_TOP")
    IN  [g4 EXCEPT !.h = Corners(g4.h), !.hu = Corners(g4.hu), !.hv = Corners(g4.hv)]

\* variant: a CONNECT edge is filled like an OUTFLOW edge
ConnectCopiesInterior(g, bt) ==
    LET ct == [e \in Edges |-> IF bt[e] = "CONNECT" THEN "OUTFLOW" ELSE bt[e]]
        g1 == EdgeCondition(g, ct, "BND_LEFT")
        g2 == EdgeCondition(g1, ct, "BND_RIGHT")
        g3 == EdgeCondition(g2, ct, "BND_BOTTOM")
        g4 == EdgeCondition(g3, ct, "BND_TOP")
    IN  [g4 EXCEPT !.h = Corners(g4.h), !.hu = Corners(g4.hu), !.hv = Corners(g4.hv)]

\* SWE_Block::applyBoundaryConditions
applyBoundaryConditions(g, bt) ==
    LET g1 == EdgeCondition(g, bt, "BND_LEFT")
        g2 == EdgeCondition(g1, bt, "BND_RIGHT")
        g3 == EdgeCondition(g2, bt, "BND_BOTTOM")
        g4 == EdgeCondition(g3, bt, "BND_TOP")
    IN  [g4 EXCEPT !.h = Corners(g4.h), !.hu = Corners(g4.hu), !.hv = Corners(g4.hv)]

\* SWE_DimensionalSplittingCharm::setGhostLayer
setGhostLayer(g, bt) == applyBoundaryConditions(g, bt)

(***************************************************************************)
(* Block identity (constructor of SWE_DimensionalSplittingCharm).          *)
(***************************************************************************)
\* the launcher numbers the blocks column by column
PosX(blk) == blk \div blockCountY
PosY(blk) == blk % blockCountY

neighbourIndex(blk, e) ==
    CASE e = "BND_LEFT" -> IF PosX(blk) > 0 THEN blk - blockCountY ELSE 0 - 1
      [] e = "BND_RIGHT" -> IF PosX(blk) < blockCountX - 1 THEN blk + blockCountY ELSE 0 - 1
      [] e = "BND_BOTTOM" -> IF PosY(blk) > 0 THEN blk - 1 ELSE 0 - 1
      [] e = "BND_TOP" -> IF PosY(blk) < blockCountY - 1 THEN blk + 1 ELSE 0 - 1

\* checkpointInstantOfTime[i], i in 0 .. checkpointCount-1, built by repeated addition
checkpointTimeDelta == simulationDuration \div checkpointCount
RECURSIVE checkpointInstantOfTime(_)
checkpointInstantOfTime(i) ==
    IF i = 0 THEN checkpointTimeDelta
    ELSE checkpointInstantOfTime(i - 1) + checkpointTimeDelta

(***************************************************************************)
(* Halo exchange (SWE_DimensionalSplittingCharm.cpp).                      *)
(***************************************************************************)
\* size elements of f from startIndex on, stride apart
Gather(f, startIndex, stride, size) ==
    [i \in 1 .. size |-> Raw(f, startIndex + (i - 1) * stride)]

CopyStart(e) ==
    CASE e = "BND_LEFT" -> ny + 2 + 1
      [] e = "BND_RIGHT" -> nx * (ny + 2) + 1
      [] e = "BND_BOTTOM" -> ny + 2 + 1
      [] e = "BND_TOP" -> ny + 2 + ny
CopyStride(e) == IF e \in {"BND_LEFT", "BND_RIGHT"} THEN 1 ELSE ny + 2
CopySize(e) == IF e \in {"BND_LEFT", "BND_RIGHT"} THEN ny ELSE nx

\* variant: the right copy layer carries the tag of the left one
CopyLayerTagsLeft(g, e, sendBathymetry) ==
    [boundary |-> IF e = "BND_RIGHT" THEN "BND_LEFT" ELSE e,
     containsBathymetry |-> sendBathymetry,
     b |-> IF sendBathymetry
           THEN Gather(g.b, CopyStart(e), CopyStride(e), CopySize(e)) ELSE << >>,
     h |-> Gather(g.h, CopyStart(e), CopyStride(e), CopySize(e)),
     hu |-> Gather(g.hu, CopyStart(e), CopyStride(e), CopySize(e)),
     hv |-> Gather(g.hv, CopyStart(e), CopyStride(e), CopySize(e))]

\* variant: start index and stride of a row-major field
CopyLayerRowMajor(g, e, sendBathymetry) ==
    LET start == IF e = "BND_RIGHT" THEN nx * (nx + 2) + 1 ELSE CopyStart(e)
        stride == IF e \in {"BND_LEFT", "BND_RIGHT"} THEN 1 ELSE nx + 2
    IN  [boundary |-> e,
         containsBathymetry |-> sendBathymetry,
         b |-> IF sendBathymetry
               THEN Gather(g.b, start, stride, CopySize(e)) ELSE << >>,
         h |-> Gather(g.h, start, stride, CopySize(e)),
         hu |-> Gather(g.hu, start, stride, CopySize(e)),
         hv |-> Gather(g.hv, start, stride, CopySize(e))]

\* variant: the bathymetry is packed whatever sendBathymetry says
CopyLayerAlwaysBathymetry(g, e, sendBathymetry) ==
    [boundary |-> e,
     containsBathymetry |-> TRUE,
     b |-> Gather(g.b, CopyStart(e), CopyStride(e), CopySize(e)),
     h |-> Gather(g.h, CopyStart(e), CopyStride(e), CopySize(e)),
     hu |-> Gather(g.hu, CopyStart(e), CopyStride(e), CopySize(e)),
     hv |-> Gather(g.hv, CopyStart(e), CopyStride(e), CopySize(e))]

\* the copy layer of edge e as sendCopyLayers(sendBathymetry) fills it
CopyLayer(g, e, sendBathymetry) ==
    [boundary |-> e,
     containsBathymetry |-> sendBathymetry,
     b |-> IF sendBathymetry
           THEN Gather(g.b, CopyStart(e), CopyStride(e), CopySize(e)) ELSE << >>,
     h |-> Gather(g.h, CopyStart(e), CopyStride(e), CopySize(e)),
     hu |-> Gather(g.hu, CopyStart(e), CopyStride(e), CopySize(e)),
     hv |-> Gather(g.hv, CopyStart(e), CopyStride(e), CopySize(e))]

\* the edges sendCopyLayers sends on
SendEdges(bt) == {e \in Edges : bt[e] = "CONNECT"}

\* payload p written into the non-corner ghost strip of edge e of field f
StripWrite(f, e, p) ==
    [i \in 1 .. FieldLen |->
        IF e \in {"BND_LEFT", "BND_RIGHT"}
        THEN IF XOf(i) = GhostX(e, 0) /\ YOf(i) \in 1 .. ny THEN p[YOf(i)] ELSE f[i]
        ELSE IF YOf(i) = GhostY(e, 0) /\ XOf(i) \in 1 .. nx THEN p[XOf(i)] ELSE f[i]]

\* variant: the receiver's boundary type is not looked at
UnpackEdgeIgnoresType(bt, msg) == Opposite(msg.boundary)

\* the receiver's edge whose ghost strip processCopyLayer fills for msg, or None
UnpackEdge(bt, msg) ==
    IF msg.boundary = "BND_RIGHT" /\ bt["BND_LEFT"] = "CONNECT" THEN "BND_LEFT"
    ELSE IF msg.boundary = "BND_LEFT" /\ bt["BND_RIGHT"] = "CONNECT" THEN "BND_RIGHT"
    ELSE IF msg.boundary = "BND_TOP" /\ bt["BND_BOTTOM"] = "CONNECT" THEN "BND_BOTTOM"
    ELSE IF msg.boundary = "BND_BOTTOM" /\ bt["BND_TOP"] = "CONNECT" THEN "BND_TOP"
    ELSE None

\* variant: the bathymetry payload lands in the interior strip beside the edge
ProcessWritesInterior(g, bt, msg) ==
    LET e == UnpackEdge(bt, msg)
        inner == [i \in 1 .. FieldLen |->
                    IF e \in {"BND_LEFT", "BND_RIGHT"}
                    THEN IF XOf(i) = InnerX(e, 0) /\ YOf(i) \in 1 .. ny
                         THEN msg.b[YOf(i)] ELSE g.b[i]
                    ELSE IF YOf(i) = InnerY(e, 0) /\ XOf(i) \in 1 .. nx
                         THEN msg.b[XOf(i)] ELSE g.b[i]]
    IN  IF e = None THEN g
        ELSE [h |-> StripWrite(g.h, e, msg.h),
              hu |-> StripWrite(g.hu, e, msg.hu),
              hv |-> StripWrite(g.hv, e, msg.hv),
              b |-> IF msg.containsBathymetry THEN inner ELSE g.b]

\* SWE_DimensionalSplittingCharm::processCopyLayer
processCopyLayer(g, bt, msg) ==
    LET e == UnpackEdge(bt, msg)
    IN  IF e = None THEN g
        ELSE [h |-> StripWrite(g.h, e, msg.h),
              hu |-> StripWrite(g.hu, e, msg.hu),
              hv |-> StripWrite(g.hv, e, msg.hv),
              b |-> IF msg.containsBathymetry THEN StripWrite(g.b, e, msg.b) ELSE g.b]

(***************************************************************************)
(* The external collaborators: scenario and Riemann solver.  Both are pure *)
(* functions outside the solver core; the stand-ins below fix one.         *)
(***************************************************************************)
Scenarios == {"dam", "shore"}

\* "shore" is dry land except for the last global column (or row) of cells
ShoreWet(gx, gy) ==
    IF blockCountX > 1 THEN gx = blockCountX * nx ELSE gy = blockCountY * ny

getBathymetry(s, gx, gy) ==
    IF s = "shore" /\ ~ShoreWet(gx, gy) THEN gx + 3 * gy
    ELSE 0 - (10 + gx + 3 * gy)

getWaterHeight(s, gx, gy) ==
    IF s = "shore" THEN (IF ShoreWet(gx, gy) THEN 8 ELSE 0)
    ELSE 10 + gx + 3 * gy + (IF gx + gy <= nx + ny THEN 4 ELSE 0)

getVeloc_u(s, gx, gy) == IF s = "shore" THEN 0 ELSE 1
getVeloc_v(s, gx, gy) == 0

\* a Riemann problem between two dry cells has no waves
DryPair(hL, hR) == hL <= 0 /\ hR <= 0

\* solver.computeNetUpdates: left- and right-going net updates of the height and
\* of the momentum normal to the edge
computeNetUpdates(hL, hR, qL, qR, bL, bR) ==
    LET dh == (hR + bR) - (hL + bL)
        dq == qR - qL
    IN  IF DryPair(hL, hR)
        THEN [hLeft |-> 0, hRight |-> 0, qLeft |-> 0, qRight |-> 0]
        ELSE [hLeft |-> dq - dh, hRight |-> dq + dh, qLeft |-> dh - dq, qRight |-> dh + dq]

(***************************************************************************)
(* Flux kernel driver and unknown updater.                                 *)
(***************************************************************************)
\* the net-update fields of the y-sweep are (nx+1) x (ny+2)
YFieldLen == (nx + 1) * (ny + 2)
ZeroUpdates ==
    [hNetUpdatesLeft |-> ZeroField, hNetUpdatesRight |-> ZeroField,
     huNetUpdatesLeft |-> ZeroField, huNetUpdatesRight |-> ZeroField,
     hNetUpdatesBelow |-> [i \in 1 .. YFieldLen |-> 0],
     hNetUpdatesAbove |-> [i \in 1 .. YFieldLen |-> 0],
     hvNetUpdatesBelow |-> [i \in 1 .. YFieldLen |-> 0],
     hvNetUpdatesAbove |-> [i \in 1 .. YFieldLen |-> 0]]

\* the eight net-update arrays and the number of columns each is allocated with
XArrays == {"hNetUpdatesLeft", "hNetUpdatesRight", "huNetUpdatesLeft", "huNetUpdatesRight"}
YArrays == {"hNetUpdatesBelow", "hNetUpdatesAbove", "hvNetUpdatesBelow", "hvNetUpdatesAbove"}
Columns(a) == IF a \in XArrays THEN nx + 2 ELSE nx + 1

\* no sweep under way: no iteration done, no element written, no access out of bounds
NoSweep ==
    [stage |-> "idle", done |-> {},
     writes |-> [a \in XArrays \cup YArrays |-> [i \in 1 .. Columns(a) * (ny + 2) |-> 0]],
     fault |-> FALSE]

\* the Riemann problem between (x, y) and (x+1, y), and between (x, y) and (x, y+1)
XSolve(g, x, y) ==
    computeNetUpdates(At(g.h, x, y), At(g.h, x + 1, y), At(g.hu, x, y), At(g.hu, x + 1, y),
                      At(g.b, x, y), At(g.b, x + 1, y))
YSolve(g, x, y) ==
    computeNetUpdates(At(g.h, x, y), At(g.h, x, y + 1), At(g.hv, x, y), At(g.hv, x, y + 1),
                      At(g.b, x, y), At(g.b, x, y + 1))

\* both sweeps of computeNumericalFluxes: every element a sweep does not write
\* keeps the value nu holds
Sweeps(g, nu) ==
    [hNetUpdatesLeft |-> [i \in 1 .. FieldLen |->
        IF XOf(i) \in 0 .. nx /\ YOf(i) \in 1 .. ny
        THEN XSolve(g, XOf(i), YOf(i)).hLeft ELSE nu.hNetUpdatesLeft[i]],
     huNetUpdatesLeft |-> [i \in 1 .. FieldLen |->
        IF XOf(i) \in 0 .. nx /\ YOf(i) \in 1 .. ny
        THEN XSolve(g, XOf(i), YOf(i)).qLeft ELSE nu.huNetUpdatesLeft[i]],
     hNetUpdatesRight |-> [i \in 1 .. FieldLen |->
        IF XOf(i) \in 1 .. nx + 1 /\ YOf(i) \in 1 .. ny
        THEN XSolve(g, XOf(i) - 1, YOf(i)).hRight ELSE nu.hNetUpdatesRight[i]],
     huNetUpdatesRight |-> [i \in 1 .. FieldLen |->
        IF XOf(i) \in 1 .. nx + 1 /\ YOf(i) \in 1 .. ny
        THEN XSolve(g, XOf(i) - 1, YOf(i)).qRight ELSE nu.huNetUpdatesRight[i]],
     hNetUpdatesBelow |-> [i \in 1 .. YFieldLen |->
        IF XOf(i) \in 1 .. nx /\ YOf(i) \in 0 .. ny
        THEN YSolve(g, XOf(i), YOf(i)).hLeft ELSE nu.hNetUpdatesBelow[i]],
     hvNetUpdatesBelow |-> [i \in 1 .. YFieldLen |->
        IF XOf(i) \in 1 .. nx /\ YOf(i) \in 0 .. ny
        THEN YSolve(g, XOf(i), YOf(i)).qLeft ELSE nu.hvNetUpdatesBelow[i]],
     hNetUpdatesAbove |-> [i \in 1 .. YFieldLen |->
        IF XOf(i) \in 1 .. nx /\ YOf(i) \in 1 .. ny + 1
        THEN YSolve(g, XOf(i), YOf(i) - 1).hRight ELSE nu.hNetUpdatesAbove[i]],
     hvNetUpdatesAbove |-> [i \in 1 .. YFieldLen |->
        IF XOf(i) \in 1 .. nx /\ YOf(i) \in 1 .. ny + 1
        THEN YSolve(g, XOf(i), YOf(i) - 1).qRight ELSE nu.hvNetUpdatesAbove[i]]]

\* the values the max-reductions of the two sweeps can end with: zero when every
\* Riemann problem of the sweep is dry, else whatever positive speed the solver reports
HorizontalSpeeds(g) ==
    IF \E x \in 0 .. nx, y \in 1 .. ny : ~DryPair(At(g.h, x, y), At(g.h, x + 1, y))
    THEN 1 .. MaxSpeed ELSE {0}
VerticalSpeeds(g) ==
    IF \E x \in 1 .. nx, y \in 0 .. ny : ~DryPair(At(g.h, x, y), At(g.h, x, y + 1))
    THEN 1 .. MaxSpeed ELSE {0}

\* a float length in ticks
Ticks(d) == d * TimeDen

\* variant: each quotient with the wave speed of its own direction
LocalTimestepPerDirection(maxHorizontalWaveSpeed, maxVerticalWaveSpeed) ==
    FTimesCfl(FMin(FDiv(Ticks(dx), maxHorizontalWaveSpeed),
                   FDiv(Ticks(dy), maxVerticalWaveSpeed)))

\* maxTimestep as computeNumericalFluxes leaves it
LocalTimestep(maxHorizontalWaveSpeed, maxVerticalWaveSpeed) ==
    LET maxWaveSpeed == Max(maxHorizontalWaveSpeed, maxVerticalWaveSpeed)
    IN  FTimesCfl(FMin(FDiv(Ticks(dx), maxWaveSpeed), FDiv(Ticks(dy), maxWaveSpeed)))

\* assert(maxTimestep < .5 * (dy / maxVerticalWaveSpeed))
CflAssertion(mt, maxVerticalWaveSpeed) ==
    FLess(mt, FHalf(FDiv(Ticks(dy), maxVerticalWaveSpeed)))

\* a non-finite cell value (inf * 0, or +-inf)
NaN == 0 - 999999

\* (dt / d) * v
Scaled(dt, d, v) == (dt * v) \div (TimeDen * d)

updateUnknowns(g, nu, dt) ==
    LET In(i) == XOf(i) \in 1 .. nx /\ YOf(i) \in 1 .. ny
    IN  [h |-> [i \in 1 .. FieldLen |->
                  IF ~In(i) THEN g.h[i]
                  ELSE IF dt = Inf THEN NaN
                  ELSE g.h[i] - (Scaled(dt, dx, nu.hNetUpdatesRight[i] + nu.hNetUpdatesLeft[i])
                                 + Scaled(dt, dy, nu.hNetUpdatesAbove[i] + nu.hNetUpdatesBelow[i]))],
         hu |-> [i \in 1 .. FieldLen |->
                  IF ~In(i) THEN g.hu[i]
                  ELSE IF dt = Inf THEN NaN
                  ELSE g.hu[i] - Scaled(dt, dx, nu.huNetUpdatesRight[i] + nu.huNetUpdatesLeft[i])],
         hv |-> [i \in 1 .. FieldLen |->
                  IF ~In(i) THEN g.hv[i]
                  ELSE IF dt = Inf THEN NaN
                  ELSE g.hv[i] - Scaled(dt, dy, nu.hvNetUpdatesAbove[i] + nu.hvNetUpdatesBelow[i])],
         b |-> g.b]

\* assert(std::abs(dt - maxTimestep) < 0.00001)
UpdateAssertion(dt, mt) ==
    /\ dt # Inf
    /\ mt # Inf
    /\ (IF dt >= mt THEN dt - mt ELSE mt - dt) * 100000 < TimeDen

\* variant: the block keeps its own maxTimestep
ReduceKeepsLocal(old, maxWaveSpeed) == old
\* reduceWaveSpeed(maxWaveSpeed): the reduced value becomes maxTimestep
reduceWaveSpeed(old, maxWaveSpeed) == maxWaveSpeed

\* CkReduction::min_float over the contributions c of the blocks
RECURSIVE FMinOver(_, _)
FMinOver(c, S) ==
    IF S = {} THEN Inf
    ELSE LET k == CHOOSE k \in S : TRUE IN FMin(c[k], FMinOver(c, S \ {k}))
Reduction(c) == FMinOver(c, DOMAIN c)

\* initScenario: sample the scenario in the interior, take over the boundary
\* types, fill the ghost layers
InitialInterior(blk, s) ==
    LET gxOf(i) == PosX(blk) * nx + XOf(i)
        gyOf(i) == PosY(blk) * ny + YOf(i)
        In(i) == XOf(i) \in 1 .. nx /\ YOf(i) \in 1 .. ny
    IN  [b |-> [i \in 1 .. FieldLen |->
                  IF In(i) THEN getBathymetry(s, gxOf(i), gyOf(i)) ELSE 0],
         h |-> [i \in 1 .. FieldLen |->
                  IF In(i) THEN getWaterHeight(s, gxOf(i), gyOf(i)) ELSE 0],
         hu |-> [i \in 1 .. FieldLen |->
                  IF In(i) THEN getVeloc_u(s, gxOf(i), gyOf(i)) * getWaterHeight(s, gxOf(i), gyOf(i))
                  ELSE 0],
         hv |-> [i \in 1 .. FieldLen |->
                  IF In(i) THEN getVeloc_v(s, gxOf(i), gyOf(i)) * getWaterHeight(s, gxOf(i), gyOf(i))
                  ELSE 0]]

initScenario(blk, s, bt) ==
    applyBoundaryBathymetry(applyBoundaryConditions(InitialInterior(blk, s), bt), bt)

(***************************************************************************)
(* The per-block state machine.  A block runs from one suspension point to *)
(* the next without yielding, so each action below is one such run.        *)
(***************************************************************************)
\* no time: an empty contribution or reduction slot
NoTime == 0 - 2

Grid(blk) == [h |-> h[blk], hu |-> hu[blk], hv |-> hv[blk], b |-> b[blk]]
SetGrid(blk, g) ==
    /\ h' = [h EXCEPT ![blk] = g.h]
    /\ hu' = [hu EXCEPT ![blk] = g.hu]
    /\ hv' = [hv EXCEPT ![blk] = g.hv]
    /\ b' = [b EXCEPT ![blk] = g.b]

ConnectEdges(blk) == SendEdges(boundaryType[blk])
NoOp == [op |-> None, blk |-> 0, edge |-> None, bathymetry |-> FALSE]
NoRecv == [seq |-> 0, phase |-> 0, strip |-> None]

\* the constructor body: initScenario, then the output at t = 0
Construct(blk) ==
    /\ ~aborted
    /\ pc[blk] = "INIT"
    /\ SetGrid(blk, initScenario(blk, scenario, boundaries[blk]))
    /\ boundaryType' = [boundaryType EXCEPT ![blk] = boundaries[blk]]
    /\ written' = [written EXCEPT ![blk] = Append(@, currentSimulationTime[blk])]
    /\ pc' = [pc EXCEPT ![blk] = "EXCHANGE_BATHY"]
    /\ UNCHANGED <<configVars, netUpdates, maxTimestep, currentSimulationTime,
                   currentCheckpoint, sent, received, inbox, contribution, reduced,
                   aborted, phase, sendCount, lastSent, lastRecv, localDt, usedDt,
                   stepCount, waveSpeeds, lastOp, sweep>>

\* the inboxes after blk has sent the copy layers of its CONNECT edges: the layer
\* of edge e goes to the neighbour's receiveGhost entry of the opposite edge
Deliver(box, blk, sendBathymetry) ==
    [r \in Blocks |-> [e \in Edges |->
        IF boundaryType[blk][Opposite(e)] = "CONNECT" /\ neighbourIndex(blk, Opposite(e)) = r
        THEN Append(box[r][e],
                    [msg |-> CopyLayer(Grid(blk), Opposite(e), sendBathymetry),
                     seq |-> sendCount[blk][Opposite(e)] + 1])
        ELSE box[r][e]]]

\* EXCHANGE_BATHY / EXCHANGE_HALO, first half: sendCopyLayers
SendCopyLayers(blk) ==
    /\ ~aborted
    /\ pc[blk] \in {"EXCHANGE_BATHY", "EXCHANGE_HALO"}
    /\ ~sent[blk]
    /\ inbox' = Deliver(inbox, blk, pc[blk] = "EXCHANGE_BATHY")
    /\ sent' = [sent EXCEPT ![blk] = TRUE]
    /\ phase' = [phase EXCEPT ![blk] = @ + 1]
    /\ sendCount' = [sendCount EXCEPT ![blk] =
                        [e \in Edges |-> IF e \in ConnectEdges(blk) THEN @[e] + 1 ELSE @[e]]]
    /\ lastSent' = [lastSent EXCEPT ![blk] =
                        [e \in Edges |-> IF e \in ConnectEdges(blk)
                                         THEN CopyLayer(Grid(blk), e, pc[blk] = "EXCHANGE_BATHY")
                                         ELSE @[e]]]
    /\ UNCHANGED <<configVars, boundaryType, fieldVars, netUpdates, maxTimestep,
                   currentSimulationTime, currentCheckpoint, pc, received, contribution,
                   reduced, aborted, lastRecv, localDt, usedDt, stepCount, waveSpeeds,
                   written, lastOp, sweep>>

\* second half: when receiveGhost<e>(msg) serial { processCopyLayer(msg); }
ReceiveGhost(blk, e) ==
    /\ ~aborted
    /\ pc[blk] \in {"EXCHANGE_BATHY", "EXCHANGE_HALO"}
    /\ sent[blk]
    /\ boundaryType[blk][e] = "CONNECT"
    /\ e \notin received[blk]
    /\ inbox[blk][e] # << >>
    /\ LET m == Head(inbox[blk][e])
       IN  /\ SetGrid(blk, processCopyLayer(Grid(blk), boundaryType[blk], m.msg))
           /\ lastRecv' = [lastRecv EXCEPT ![blk][e] =
                              [seq |-> m.seq, phase |-> phase[blk],
                               strip |-> UnpackEdge(boundaryType[blk], m.msg)]]
    /\ inbox' = [inbox EXCEPT ![blk][e] = Tail(@)]
    /\ received' = [received EXCEPT ![blk] = @ \cup {e}]
    /\ UNCHANGED <<configVars, boundaryType, netUpdates, maxTimestep,
                   currentSimulationTime, currentCheckpoint, pc, sent, contribution,
                   reduced, aborted, phase, sendCount, lastSent, localDt, usedDt,
                   stepCount, waveSpeeds, written, lastOp, sweep>>

ExchangeComplete(blk) == sent[blk] /\ received[blk] = ConnectEdges(blk)

\* the bathymetry exchange is over: enter the loop
EnterLoop(blk) ==
    /\ ~aborted
    /\ pc[blk] = "EXCHANGE_BATHY"
    /\ ExchangeComplete(blk)
    /\ pc' = [pc EXCEPT ![blk] = "EXCHANGE_HALO"]
    /\ sent' = [sent EXCEPT ![blk] = FALSE]
    /\ received' = [received EXCEPT ![blk] = {}]
    /\ UNCHANGED <<configVars, boundaryType, fieldVars, netUpdates, maxTimestep,
                   currentSimulationTime, currentCheckpoint, inbox, contribution,
                   reduced, aborted, histVars, lastOp, sweep>>

\* APPLY_BC: setGhostLayer once the copy layers of the step are unpacked
ApplyBoundary(blk) ==
    /\ ~aborted
    /\ pc[blk] = "EXCHANGE_HALO"
    /\ ExchangeComplete(blk)
    /\ SetGrid(blk, setGhostLayer(Grid(blk), boundaryType[blk]))
    /\ pc' = [pc EXCEPT ![blk] = "COMPUTE_FLUX"]
    /\ sent' = [sent EXCEPT ![blk] = FALSE]
    /\ received' = [received EXCEPT ![blk] = {}]
    /\ UNCHANGED <<configVars, boundaryType, netUpdates, maxTimestep,
                   currentSimulationTime, currentCheckpoint, inbox, contribution,
                   reduced, aborted, histVars, lastOp, sweep>>

\* COMPUTE_FLUX: both sweeps, the local time step, its assertion, the contribution
ComputeNumericalFluxes(blk) ==
    /\ ~aborted
    /\ pc[blk] = "COMPUTE_FLUX"
    /\ \E sH \in HorizontalSpeeds(Grid(blk)), sV \in VerticalSpeeds(Grid(blk)) :
        LET mt == LocalTimestep(sH, sV)
            fatal == ~ndebug /\ ~CflAssertion(mt, sV)
        IN  /\ netUpdates' = [netUpdates EXCEPT ![blk] = Sweeps(Grid(blk), @)]
            /\ maxTimestep' = [maxTimestep EXCEPT ![blk] = mt]
            /\ waveSpeeds' = [waveSpeeds EXCEPT ![blk] = <<sH, sV>>]
            /\ aborted' = fatal
            /\ localDt' = [localDt EXCEPT ![blk] = IF fatal THEN @ ELSE mt]
            /\ contribution' = [contribution EXCEPT ![blk] = IF fatal THEN @ ELSE mt]
            /\ pc' = [pc EXCEPT ![blk] = IF fatal THEN @ ELSE "REDUCE_DT"]
    /\ UNCHANGED <<configVars, boundaryType, fieldVars, currentSimulationTime,
                   currentCheckpoint, sent, received, inbox, reduced, phase, sendCount,
                   lastSent, lastRecv, usedDt, stepCount, written, lastOp, sweep>>

\* variant: the collective delivers as soon as one block has contributed
ReduceWithoutBarrier ==
    /\ ~aborted
    /\ \E blk \in Blocks : contribution[blk] # NoTime
    /\ LET S == {blk \in Blocks : contribution[blk] # NoTime}
       IN  reduced' = [blk \in Blocks |->
                         IF blk \in S THEN FMinOver(contribution, S) ELSE reduced[blk]]
    /\ contribution' = [blk \in Blocks |-> NoTime]
    /\ UNCHANGED <<configVars, boundaryType, fieldVars, netUpdates, maxTimestep,
                   currentSimulationTime, currentCheckpoint, pc, sent, received, inbox,
                   aborted, histVars, lastOp, sweep>>

\* the collective: once every block has contributed, the minimum is broadcast
Reduce ==
    /\ ~aborted
    /\ \A blk \in Blocks : contribution[blk] # NoTime
    /\ reduced' = [blk \in Blocks |-> Reduction(contribution)]
    /\ contribution' = [blk \in Blocks |-> NoTime]
    /\ UNCHANGED <<configVars, boundaryType, fieldVars, netUpdates, maxTimestep,
                   currentSimulationTime, currentCheckpoint, pc, sent, received, inbox,
                   aborted, histVars, lastOp, sweep>>

\* REDUCE_DT -> UPDATE -> ADVANCE_CLOCK: reduceWaveSpeed(dt) and, on its
\* reductionTrigger, updateUnknowns(maxTimestep) and the clock
ReduceWaveSpeed(blk) ==
    /\ ~aborted
    /\ pc[blk] = "REDUCE_DT"
    /\ reduced[blk] # NoTime
    /\ LET dt == reduceWaveSpeed(maxTimestep[blk], reduced[blk])
           fatal == ~ndebug /\ ~UpdateAssertion(dt, dt)
       IN  /\ maxTimestep' = [maxTimestep EXCEPT ![blk] = dt]
           /\ aborted' = fatal
           /\ IF fatal
              THEN UNCHANGED <<fieldVars, currentSimulationTime, pc, usedDt, stepCount>>
              ELSE /\ SetGrid(blk, updateUnknowns(Grid(blk), netUpdates[blk], dt))
                   /\ currentSimulationTime' =
                        [currentSimulationTime EXCEPT ![blk] = FAdd(@, dt)]
                   /\ usedDt' = [usedDt EXCEPT ![blk] = dt]
                   /\ stepCount' = [stepCount EXCEPT ![blk] = @ + 1]
                   /\ pc' = [pc EXCEPT ![blk] = "MAYBE_WRITE"]
    /\ reduced' = [reduced EXCEPT ![blk] = NoTime]
    /\ UNCHANGED <<configVars, boundaryType, netUpdates, currentCheckpoint, sent,
                   received, inbox, contribution, phase, sendCount, lastSent, lastRecv,
                   localDt, waveSpeeds, written, lastOp, sweep>>

\* MAYBE_WRITE, then the loop test
MaybeWrite(blk) ==
    /\ ~aborted
    /\ pc[blk] = "MAYBE_WRITE"
    /\ LET due == FGeq(currentSimulationTime[blk],
                       checkpointInstantOfTime(currentCheckpoint[blk]))
           cc == IF due THEN currentCheckpoint[blk] + 1 ELSE currentCheckpoint[blk]
           over == cc = checkpointCount
                   \/ FGeq(currentSimulationTime[blk], simulationDuration)
       IN  /\ written' = [written EXCEPT ![blk] =
                            IF due THEN Append(@, currentSimulationTime[blk]) ELSE @]
           /\ currentCheckpoint' = [currentCheckpoint EXCEPT ![blk] = cc]
           /\ pc' = [pc EXCEPT ![blk] = IF over THEN "DONE" ELSE "EXCHANGE_HALO"]
    /\ UNCHANGED <<configVars, boundaryType, fieldVars, netUpdates, maxTimestep,
                   currentSimulationTime, sent, received, inbox, contribution, reduced,
                   aborted, phase, sendCount, lastSent, lastRecv, localDt, usedDt,
                   stepCount, waveSpeeds, lastOp, sweep>>

(***************************************************************************)
(* Spec: a run of the whole lattice.                                       *)
(***************************************************************************)
Lattices == {<<2, 1>>, <<1, 2>>}
GridSpacings == {<<1, 1>>, <<3, 4>>}
OuterTypes == {"WALL", "OUTFLOW"}

\* the state the member initialisers leave: zeroed fields, PASSIVE edges
InitBlocks ==
    /\ boundaryType = [blk \in Blocks |-> [e \in Edges |-> "PASSIVE"]]
    /\ h = [blk \in Blocks |-> ZeroField]
    /\ hu = [blk \in Blocks |-> ZeroField]
    /\ hv = [blk \in Blocks |-> ZeroField]
    /\ b = [blk \in Blocks |-> ZeroField]
    /\ netUpdates = [blk \in Blocks |-> ZeroUpdates]
    /\ maxTimestep = [blk \in Blocks |-> 0]
    /\ currentSimulationTime = [blk \in Blocks |-> 0]
    /\ currentCheckpoint = [blk \in Blocks |-> 0]
    /\ sent = [blk \in Blocks |-> FALSE]
    /\ received = [blk \in Blocks |-> {}]
    /\ inbox = [blk \in Blocks |-> [e \in Edges |-> << >>]]
    /\ contribution = [blk \in Blocks |-> NoTime]
    /\ reduced = [blk \in Blocks |-> NoTime]
    /\ aborted = FALSE
    /\ phase = [blk \in Blocks |-> 0]
    /\ sendCount = [blk \in Blocks |-> [e \in Edges |-> 0]]
    /\ lastSent = [blk \in Blocks |-> [e \in Edges |-> None]]
    /\ lastRecv = [blk \in Blocks |-> [e \in Edges |-> NoRecv]]
    /\ localDt = [blk \in Blocks |-> NoTime]
    /\ usedDt = [blk \in Blocks |-> NoTime]
    /\ stepCount = [blk \in Blocks |-> 0]
    /\ waveSpeeds = [blk \in Blocks |-> << >>]
    /\ written = [blk \in Blocks |-> << >>]
    /\ lastOp = NoOp
    /\ sweep = NoSweep

Init ==
    /\ \E l \in Lattices : blockCountX = l[1] /\ blockCountY = l[2]
    /\ nx = MaxN
    /\ ny = MaxN
    /\ \E d \in GridSpacings : dx = d[1] /\ dy = d[2]
    /\ simulationDuration = TimeDen
    /\ checkpointCount \in 1 .. MaxCheckpoints
    /\ ndebug \in BOOLEAN
    /\ scenario \in Scenarios
    /\ \E t \in OuterTypes :
         boundaries = [blk \in Blocks |-> [e \in Edges |->
                          IF neighbourIndex(blk, e) > 0 - 1 THEN "CONNECT" ELSE t]]
    /\ pc = [blk \in Blocks |-> "INIT"]
    /\ InitBlocks

Next ==
    \/ \E blk \in Blocks : Construct(blk)
    \/ \E blk \in Blocks : SendCopyLayers(blk)
    \/ \E blk \in Blocks, e \in Edges : ReceiveGhost(blk, e)
    \/ \E blk \in Blocks : EnterLoop(blk)
    \/ \E blk \in Blocks : ApplyBoundary(blk)
    \/ \E blk \in Blocks : ComputeNumericalFluxes(blk)
    \/ Reduce
    \/ \E blk \in Blocks : ReduceWaveSpeed(blk)
    \/ \E blk \in Blocks : MaybeWrite(blk)

Spec == Init /\ [][Next]_vars

(***************************************************************************)
(* BoundarySpec: the two boundary operations applied to one block, for     *)
(* every block size up to MaxN and every vector of boundary types.         *)
(***************************************************************************)
\* a field whose cells all differ, and differ between fields and blocks
PatternField(blk, k) == [i \in 1 .. FieldLen |-> 1000 * blk + 100 * k + i]
PatternGrid(blk) ==
    [h |-> PatternField(blk, 1), hu |-> PatternField(blk, 2),
     hv |-> PatternField(blk, 3), b |-> PatternField(blk, 4)]

InitPattern ==
    /\ h = [blk \in Blocks |-> PatternGrid(blk).h]
    /\ hu = [blk \in Blocks |-> PatternGrid(blk).hu]
    /\ hv = [blk \in Blocks |-> PatternGrid(blk).hv]
    /\ b = [blk \in Blocks |-> PatternGrid(blk).b]
    /\ netUpdates = [blk \in Blocks |-> ZeroUpdates]
    /\ maxTimestep = [blk \in Blocks |-> 0]
    /\ currentSimulationTime = [blk \in Blocks |-> 0]
    /\ currentCheckpoint = [blk \in Blocks |-> 0]
    /\ pc = [blk \in Blocks |-> "UNIT"]
    /\ sent = [blk \in Blocks |-> FALSE]
    /\ received = [blk \in Blocks |-> {}]
    /\ inbox = [blk \in Blocks |-> [e \in Edges |-> << >>]]
    /\ contribution = [blk \in Blocks |-> NoTime]
    /\ reduced = [blk \in Blocks |-> NoTime]
    /\ aborted = FALSE
    /\ phase = [blk \in Blocks |-> 0]
    /\ sendCount = [blk \in Blocks |-> [e \in Edges |-> 0]]
    /\ lastSent = [blk \in Blocks |-> [e \in Edges |-> None]]
    /\ lastRecv = [blk \in Blocks |-> [e \in Edges |-> NoRecv]]
    /\ localDt = [blk \in Blocks |-> NoTime]
    /\ usedDt = [blk \in Blocks |-> NoTime]
    /\ stepCount = [blk \in Blocks |-> 0]
    /\ waveSpeeds = [blk \in Blocks |-> << >>]
    /\ written = [blk \in Blocks |-> << >>]
    /\ lastOp = NoOp
    /\ sweep = NoSweep

InitUnitConfig ==
    /\ nx \in 1 .. MaxN
    /\ ny \in 1 .. MaxN
    /\ dx = 1
    /\ dy = 1
    /\ simulationDuration = TimeDen
    /\ checkpointCount = 1
    /\ ndebug = FALSE
    /\ scenario = "dam"

BoundaryInit ==
    /\ blockCountX = 1
    /\ blockCountY = 1
    /\ InitUnitConfig
    /\ boundaryType \in [Blocks -> [Edges -> BoundaryTypes]]
    /\ boundaries = boundaryType
    /\ InitPattern

UnitFrame == UNCHANGED <<configVars, boundaryType, netUpdates, maxTimestep,
                         currentSimulationTime, currentCheckpoint, pc, sent, received,
                         contribution, reduced, aborted, histVars, sweep>>

UnitApplyBoundaryConditions(blk) ==
    /\ SetGrid(blk, applyBoundaryConditions(Grid(blk), boundaryType[blk]))
    /\ lastOp' = [NoOp EXCEPT !.op = "applyBoundaryConditions", !.blk = blk]
    /\ UNCHANGED inbox
    /\ UnitFrame

UnitApplyBoundaryBathymetry(blk) ==
    /\ SetGrid(blk, applyBoundaryBathymetry(Grid(blk), boundaryType[blk]))
    /\ lastOp' = [NoOp EXCEPT !.op = "applyBoundaryBathymetry", !.blk = blk]
    /\ UNCHANGED inbox
    /\ UnitFrame

BoundaryNext ==
    \/ \E blk \in Blocks : UnitApplyBoundaryConditions(blk)
    \/ \E blk \in Blocks : UnitApplyBoundaryBathymetry(blk)

BoundarySpec == BoundaryInit /\ [][BoundaryNext]_vars

(***************************************************************************)
(* HaloSpec: sendCopyLayers on one block and processCopyLayer on its       *)
(* neighbour, for every edge, block size up to MaxN and boundary type of   *)
(* the shared edge on either side.                                         *)
(***************************************************************************)
HaloInit ==
    /\ \E l \in Lattices : blockCountX = l[1] /\ blockCountY = l[2]
    /\ InitUnitConfig
    /\ \E outer \in BoundaryTypes \ {"CONNECT"}, shared \in [Blocks -> BoundaryTypes] :
         boundaryType = [blk \in Blocks |-> [e \in Edges |->
                            IF neighbourIndex(blk, e) > 0 - 1 THEN shared[blk] ELSE outer]]
    /\ boundaries = boundaryType
    /\ InitPattern

UnitSendCopyLayers(blk, sendBathymetry) ==
    /\ \A r \in Blocks, e \in Edges : inbox[r][e] = << >>
    /\ ConnectEdges(blk) # {}
    /\ inbox' = Deliver(inbox, blk, sendBathymetry)
    /\ lastOp' = [NoOp EXCEPT !.op = "sendCopyLayers", !.blk = blk,
                              !.bathymetry = sendBathymetry]
    /\ UNCHANGED fieldVars
    /\ UnitFrame

UnitProcessCopyLayer(blk, e) ==
    /\ inbox[blk][e] # << >>
    /\ LET m == Head(inbox[blk][e])
       IN  /\ SetGrid(blk, processCopyLayer(Grid(blk), boundaryType[blk], m.msg))
           /\ lastOp' = [op |-> "processCopyLayer", blk |-> blk, edge |-> e,
                         bathymetry |-> m.msg.containsBathymetry]
    /\ inbox' = [inbox EXCEPT ![blk][e] = Tail(@)]
    /\ UnitFrame

HaloNext ==
    \/ \E blk \in Blocks, sendBathymetry \in BOOLEAN : UnitSendCopyLayers(blk, sendBathymetry)
    \/ \E blk \in Blocks, e \in Edges : UnitProcessCopyLayer(blk, e)

HaloSpec == HaloInit /\ [][HaloNext]_vars

(***************************************************************************)
(* GhostSpec: the halo exchange of HaloSpec together with setGhostLayer, in *)
(* any order on either block.                                              *)
(***************************************************************************)
UnitSetGhostLayer(blk) ==
    /\ SetGrid(blk, setGhostLayer(Grid(blk), boundaryType[blk]))
    /\ lastOp' = [NoOp EXCEPT !.op = "applyBoundaryConditions", !.blk = blk]
    /\ UNCHANGED inbox
    /\ UnitFrame

GhostNext ==
    \/ \E blk \in Blocks, sendBathymetry \in BOOLEAN : UnitSendCopyLayers(blk, sendBathymetry)
    \/ \E blk \in Blocks, e \in Edges : UnitProcessCopyLayer(blk, e)
    \/ \E blk \in Blocks : UnitSetGhostLayer(blk)

GhostSpec == HaloInit /\ [][GhostNext]_vars

(***************************************************************************)
(* SweepSpec: the iterations of the x-sweep and of the y-sweep of one      *)
(* computeNumericalFluxes on one block, each loop's iterations in any      *)
(* order, then updateUnknowns; for every block size up to MaxN.            *)
(***************************************************************************)
\* the iteration spaces of the two loops
XSweepColumnsInterior == 1 .. nx
XSweepColumns == 0 .. nx
XSweepRows == 1 .. ny
YSweepColumns == 1 .. nx
YSweepRows == 0 .. ny

\* the elements one iteration of the x-sweep, and of the y-sweep, writes
XWrites(g, x, y) ==
    LET r == XSolve(g, x, y)
    IN  {[array |-> "hNetUpdatesLeft", x |-> x, y |-> y, value |-> r.hLeft],
         [array |-> "hNetUpdatesRight", x |-> x + 1, y |-> y, value |-> r.hRight],
         [array |-> "huNetUpdatesLeft", x |-> x, y |-> y, value |-> r.qLeft],
         [array |-> "huNetUpdatesRight", x |-> x + 1, y |-> y, value |-> r.qRight]}
YWrites(g, x, y) ==
    LET r == YSolve(g, x, y)
    IN  {[array |-> "hNetUpdatesBelow", x |-> x, y |-> y, value |-> r.hLeft],
         [array |-> "hNetUpdatesAbove", x |-> x, y |-> y + 1, value |-> r.hRight],
         [array |-> "hvNetUpdatesBelow", x |-> x, y |-> y, value |-> r.qLeft],
         [array |-> "hvNetUpdatesAbove", x |-> x, y |-> y + 1, value |-> r.qRight]}

\* the net-update elements updateUnknowns reads for the interior cell (x, y)
UpdateReads(x, y) == {[array |-> a, x |-> x, y |-> y] : a \in XArrays \cup YArrays}

\* element [x][y] lies inside the allocation of its array
InBounds(w) == w.x \in 0 .. Columns(w.array) - 1 /\ w.y \in 0 .. ny + 1

\* the arrays nu after the writes W, and the write counts c after them
ApplyWrites(nu, W) ==
    [a \in DOMAIN nu |-> [i \in DOMAIN nu[a] |->
        LET hit == {w \in W : w.array = a /\ InBounds(w) /\ Offset(w.x, w.y) + 1 = i}
        IN  IF hit = {} THEN nu[a][i] ELSE (CHOOSE w \in hit : TRUE).value]]
CountWrites(c, W) ==
    [a \in DOMAIN c |-> [i \in DOMAIN c[a] |->
        c[a][i] + Cardinality({w \in W : w.array = a /\ InBounds(w)
                                             /\ Offset(w.x, w.y) + 1 = i})]]

SweepFrame == UNCHANGED <<configVars, boundaryType, fieldVars, maxTimestep,
                          currentSimulationTime, currentCheckpoint, protoVars,
                          histVars, lastOp>>

\* computeNumericalFluxes is entered
BeginSweeps(blk) ==
    /\ sweep.stage = "idle"
    /\ sweep' = [sweep EXCEPT !.stage = "x"]
    /\ UNCHANGED netUpdates
    /\ SweepFrame

Iteration(blk, it, W) ==
    /\ it \notin sweep.done
    /\ netUpdates' = [netUpdates EXCEPT ![blk] = ApplyWrites(@, W)]
    /\ sweep' = [sweep EXCEPT !.done = @ \cup {it},
                              !.writes = CountWrites(@, W),
                              !.fault = @ \/ \E w \in W : ~InBounds(w)]
    /\ SweepFrame

\* one iteration of the x-sweep, of the y-sweep
XIteration(blk, x, y) ==
    /\ sweep.stage = "x"
    /\ Iteration(blk, <<x, y>>, XWrites(Grid(blk), x, y))
YIteration(blk, x, y) ==
    /\ sweep.stage = "y"
    /\ Iteration(blk, <<x, y>>, YWrites(Grid(blk), x, y))

\* the end of the x-sweep's loop, and of the parallel region
EndXSweep ==
    /\ sweep.stage = "x"
    /\ sweep.done = XSweepColumns \X XSweepRows
    /\ sweep' = [sweep EXCEPT !.stage = "y", !.done = {}]
    /\ UNCHANGED netUpdates
    /\ SweepFrame
EndYSweep ==
    /\ sweep.stage = "y"
    /\ sweep.done = YSweepColumns \X YSweepRows
    /\ sweep' = [sweep EXCEPT !.stage = "update", !.done = {}]
    /\ UNCHANGED netUpdates
    /\ SweepFrame

\* updateUnknowns with a dt of one second
UnitUpdateUnknowns(blk) ==
    /\ sweep.stage = "update"
    /\ SetGrid(blk, updateUnknowns(Grid(blk), netUpdates[blk], TimeDen))
    /\ sweep' = [sweep EXCEPT !.stage = "done"]
    /\ UNCHANGED <<configVars, boundaryType, netUpdates, maxTimestep,
                   currentSimulationTime, currentCheckpoint, protoVars, histVars, lastOp>>

SweepInit ==
    /\ blockCountX = 1
    /\ blockCountY = 1
    /\ InitUnitConfig
    /\ boundaryType = [blk \in Blocks |-> [e \in Edges |-> "OUTFLOW"]]
    /\ boundaries = boundaryType
    /\ InitPattern

SweepNext ==
    \/ \E blk \in Blocks : BeginSweeps(blk)
    \/ \E blk \in Blocks, x \in XSweepColumns, y \in XSweepRows : XIteration(blk, x, y)
    \/ EndXSweep
    \/ \E blk \in Blocks, x \in YSweepColumns, y \in YSweepRows : YIteration(blk, x, y)
    \/ EndYSweep
    \/ \E blk \in Blocks : UnitUpdateUnknowns(blk)

SweepSpec == SweepInit /\ [][SweepNext]_vars

(***************************************************************************)
(* TimestepSpec: the time step computation at the end of                   *)
(* computeNumericalFluxes on one block, for every pair of cell sizes up to *)
(* MaxSpacing and every pair of maximum wave speeds up to MaxSpeed.        *)
(***************************************************************************)
TimestepInit ==
    /\ blockCountX = 1
    /\ blockCountY = 1
    /\ nx = 1
    /\ ny = 1
    /\ dx \in 1 .. MaxSpacing
    /\ dy \in 1 .. MaxSpacing
    /\ simulationDuration = TimeDen
    /\ checkpointCount = 1
    /\ ndebug = TRUE
    /\ scenario = "dam"
    /\ boundaryType = [blk \in Blocks |-> [e \in Edges |-> "OUTFLOW"]]
    /\ boundaries = boundaryType
    /\ InitPattern

\* lines 131-133 of computeNumericalFluxes for the wave speeds the sweeps left
UnitLocalTimestep(blk, maxHorizontalWaveSpeed, maxVerticalWaveSpeed) ==
    /\ maxTimestep' = [maxTimestep EXCEPT ![blk] =
                          LocalTimestep(maxHorizontalWaveSpeed, maxVerticalWaveSpeed)]
    /\ waveSpeeds' = [waveSpeeds EXCEPT ![blk] =
                          <<maxHorizontalWaveSpeed, maxVerticalWaveSpeed>>]
    /\ lastOp' = [NoOp EXCEPT !.op = "computeNumericalFluxes", !.blk = blk]
    /\ UNCHANGED <<configVars, boundaryType, fieldVars, netUpdates,
                   currentSimulationTime, currentCheckpoint, protoVars, phase,
                   sendCount, lastSent, lastRecv, localDt, usedDt, stepCount, written,
                   sweep>>

TimestepNext ==
    \E blk \in Blocks, sH \in 0 .. MaxSpeed, sV \in 0 .. MaxSpeed :
        UnitLocalTimestep(blk, sH, sV)

TimestepSpec == TimestepInit /\ [][TimestepNext]_vars

\* every block has left the loop
AllDone == \A blk \in Blocks : pc[blk] = "DONE"

(***************************************************************************)
(* Properties.                                                             *)
(***************************************************************************)
\* the block on the other side of edge e of blk
Neighbour(blk, e) == neighbourIndex(blk, e)

\* the k-th cell (k = 1 .. StripLen(e)) of the ghost strip of edge e, and of the
\* interior strip beside edge e
GhostCell(f, e, k) == At(f, GhostX(e, k), GhostY(e, k))
InnerCell(f, e, k) == At(f, InnerX(e, k), InnerY(e, k))

C2_GlobalMinimumDt ==
    /\ \A blk \in Blocks :
         pc[blk] = "MAYBE_WRITE" =>
            /\ usedDt[blk] = FMinOver(localDt, Blocks)
            /\ maxTimestep[blk] = usedDt[blk]
    /\ \A blk \in Blocks, other \in Blocks :
         (stepCount[blk] = stepCount[other] /\ stepCount[blk] > 0) =>
            /\ usedDt[blk] = usedDt[other]
            /\ currentSimulationTime[blk] = currentSimulationTime[other]

\* C2 witness: a block has updated with a dt smaller than its own local time step
C2_Witness ==
    \E blk \in Blocks :
        /\ pc[blk] = "MAYBE_WRITE"
        /\ stepCount[blk] >= 2
        /\ FLess(usedDt[blk], localDt[blk])

\* C3: after sendCopyLayers on the sender and processCopyLayer on the receiver,
\* with the shared edge CONNECT on both sides, the receiver's ghost strip of
\* that edge equals, cell by cell and in order, the sender's interior strip
\* beside the opposite edge, for h, hu, hv (and for b when it was sent).
C3_HaloRoundTrip ==
    LET blk == lastOp.blk
        e == lastOp.edge
        from == Neighbour(blk, e)
    IN  (lastOp.op = "processCopyLayer" /\ boundaryType[blk][e] = "CONNECT") =>
            \A k \in 1 .. StripLen(e) :
                /\ GhostCell(h[blk], e, k) = InnerCell(h[from], Opposite(e), k)
                /\ GhostCell(hu[blk], e, k) = InnerCell(hu[from], Opposite(e), k)
                /\ GhostCell(hv[blk], e, k) = InnerCell(hv[from], Opposite(e), k)
                /\ lastOp.bathymetry =>
                     GhostCell(b[blk], e, k) = InnerCell(b[from], Opposite(e), k)

\* C3 witness: a copy layer of at least two cells was unpacked on a CONNECT
\* edge of a block that is not square
C3_Witness ==
    /\ lastOp.op = "processCopyLayer"
    /\ boundaryType[lastOp.blk][lastOp.edge] = "CONNECT"
    /\ StripLen(lastOp.edge) >= 2
    /\ nx # ny

\* C4: on every CONNECT edge the first copy layer sent carries the bathymetry
\* and no later one does; a layer without bathymetry has an empty b; h, hu, hv
\* always have ny (LEFT/RIGHT) or nx (BOTTOM/TOP) elements.
C4_BathymetryOnce ==
    \A blk \in Blocks, e \in Edges :
        /\ sendCount[blk][e] > 0 <=> (boundaryType[blk][e] = "CONNECT" /\ phase[blk] > 0)
        /\ sendCount[blk][e] > 0 =>
            LET m == lastSent[blk][e]
            IN  /\ m.containsBathymetry = (sendCount[blk][e] = 1)
                /\ Len(m.b) = (IF sendCount[blk][e] = 1 THEN StripLen(e) ELSE 0)
                /\ Len(m.h) = StripLen(e)
                /\ Len(m.hu) = StripLen(e)
                /\ Len(m.hv) = StripLen(e)
                /\ sendCount[blk][e] = 1 => stepCount[blk] = 0

\* C4 witness: a third copy layer has been sent on an edge
C4_Witness ==
    \E blk \in Blocks, e \in Edges :
        /\ sendCount[blk][e] >= 3
        /\ ~lastSent[blk][e].containsBathymetry

\* C5: the run never stops short of completion: as long as some block is not
\* DONE some step is possible, and a block is DONE only when
\* currentCheckpoint = checkpointCount or currentSimulationTime >= simulationDuration.
C5_Progress ==
    /\ AllDone \/ ENABLED Next
    /\ \A blk \in Blocks :
         pc[blk] = "DONE" =>
            \/ currentCheckpoint[blk] = checkpointCount
            \/ FGeq(currentSimulationTime[blk], simulationDuration)

\* C6: the initial state is written at t = 0, every checkpoint passed is one
\* more write, checkpointInstantOfTime is indexed inside [0, checkpointCount),
\* and a block that is DONE has written all checkpointCount checkpoints.
C6_FinalCheckpoint ==
    \A blk \in Blocks :
        /\ currentCheckpoint[blk] <= checkpointCount
        /\ pc[blk] = "MAYBE_WRITE" => currentCheckpoint[blk] < checkpointCount
        /\ pc[blk] # "INIT" =>
             /\ Len(written[blk]) = currentCheckpoint[blk] + 1
             /\ written[blk][1] = 0
        /\ pc[blk] = "DONE" => currentCheckpoint[blk] = checkpointCount

\* C7: after applyBoundaryConditions every non-corner ghost cell of a WALL edge
\* has the h and the tangential momentum of the interior cell beside it and
\* the negated normal momentum.
C7_WallGhostCells ==
    LET blk == lastOp.blk
    IN  lastOp.op = "applyBoundaryConditions" =>
            \A e \in Edges :
                boundaryType[blk][e] = "WALL" =>
                    \A k \in 1 .. StripLen(e) :
                        /\ GhostCell(h[blk], e, k) = InnerCell(h[blk], e, k)
                        /\ IF e \in {"BND_LEFT", "BND_RIGHT"}
                           THEN /\ GhostCell(hu[blk], e, k) = 0 - InnerCell(hu[blk], e, k)
                                /\ GhostCell(hv[blk], e, k) = InnerCell(hv[blk], e, k)
                           ELSE /\ GhostCell(hu[blk], e, k) = InnerCell(hu[blk], e, k)
                                /\ GhostCell(hv[blk], e, k) = 0 - InnerCell(hv[blk], e, k)

\* C7 witness: applyBoundaryConditions has run on a block with a vertical and a
\* horizontal WALL edge of at least two cells each
C7_Witness ==
    /\ lastOp.op = "applyBoundaryConditions"
    /\ boundaryType[lastOp.blk]["BND_LEFT"] = "WALL"
    /\ boundaryType[lastOp.blk]["BND_TOP"] = "WALL"
    /\ boundaryType[lastOp.blk]["BND_RIGHT"] = "CONNECT"
    /\ nx >= 2
    /\ ny >= 2

\* C8: after applyBoundaryBathymetry the non-corner ghost cells of b on every
\* WALL or OUTFLOW edge equal the interior cell beside them, the four corners
\* equal their diagonal interior neighbour whatever the boundary types, and
\* the interior of b is what it was.
C8_BathymetryGhostCells ==
    LET blk == lastOp.blk
        bb == b[blk]
    IN  lastOp.op = "applyBoundaryBathymetry" =>
            /\ \A e \in Edges :
                 boundaryType[blk][e] \in {"WALL", "OUTFLOW"} =>
                    \A k \in 1 .. StripLen(e) : GhostCell(bb, e, k) = InnerCell(bb, e, k)
            /\ At(bb, 0, 0) = At(bb, 1, 1)
            /\ At(bb, 0, ny + 1) = At(bb, 1, ny)
            /\ At(bb, nx + 1, 0) = At(bb, nx, 1)
            /\ At(bb, nx + 1, ny + 1) = At(bb, nx, ny)
            /\ \A c \in Interior : At(bb, c[1], c[2]) = At(PatternGrid(blk).b, c[1], c[2])

\* C8 witness: applyBoundaryBathymetry has run on a block with one edge of each type
C8_Witness ==
    /\ lastOp.op = "applyBoundaryBathymetry"
    /\ boundaryType[lastOp.blk]["BND_LEFT"] = "CONNECT"
    /\ boundaryType[lastOp.blk]["BND_RIGHT"] = "WALL"
    /\ boundaryType[lastOp.blk]["BND_BOTTOM"] = "OUTFLOW"
    /\ boundaryType[lastOp.blk]["BND_TOP"] = "PASSIVE"
    /\ nx >= 2

\* C9: once initScenario has run, every interior cell of b holds the value the
\* scenario gave it, in every state of every block.
C9_BathymetryImmutable ==
    \A blk \in Blocks :
        pc[blk] # "INIT" =>
            \A c \in Interior :
                At(b[blk], c[1], c[2])
                    = getBathymetry(scenario, PosX(blk) * nx + c[1], PosY(blk) * ny + c[2])

\* C9 witness: a block has unpacked a copy layer with bathymetry and later ones
\* without, and has updated its unknowns twice
C9_Witness ==
    \E blk \in Blocks, e \in Edges :
        /\ lastRecv[blk][e].seq >= 3
        /\ stepCount[blk] >= 2

\* C10: every computeNumericalFluxes leaves a maxTimestep for which its
\* assertion maxTimestep < 0.5 * dy / maxVerticalWaveSpeed holds, and the dt a
\* block updates with is at most 0.5 * min(dx, dy) / maxWaveSpeed.
C10_CflCompliance ==
    \A blk \in Blocks :
        waveSpeeds[blk] # << >> =>
            LET maxHorizontalWaveSpeed == waveSpeeds[blk][1]
                maxVerticalWaveSpeed == waveSpeeds[blk][2]
                maxWaveSpeed == Max(maxHorizontalWaveSpeed, maxVerticalWaveSpeed)
            IN  /\ CflAssertion(LocalTimestep(maxHorizontalWaveSpeed, maxVerticalWaveSpeed),
                                maxVerticalWaveSpeed)
                /\ pc[blk] = "MAYBE_WRITE" =>
                     FLeq(usedDt[blk], FHalf(FDiv(Ticks(Min(dx, dy)), maxWaveSpeed)))

\* C11: a block whose sweeps report zero wave speed in both directions does
\* not abort, contributes +infinity to the reduction, and the dt it then
\* updates with is the minimum of the local time steps of the other blocks.
C11_DryBlockNoConstraint ==
    \A blk \in Blocks :
        waveSpeeds[blk] = <<0, 0>> =>
            /\ ~aborted
            /\ localDt[blk] = Inf
            /\ pc[blk] = "MAYBE_WRITE" =>
                 usedDt[blk] = FMinOver(localDt, Blocks \ {blk})

C13_PerDirectionTimestep ==
    LET blk == lastOp.blk
    IN  lastOp.op = "computeNumericalFluxes" =>
            maxTimestep[blk] = FTimesCfl(FMin(FDiv(Ticks(dx), waveSpeeds[blk][1]),
                                              FDiv(Ticks(dy), waveSpeeds[blk][2])))

\* C13 (amended): the local time step is 0.4 * min(dx, dy) / maxWaveSpeed with
\* maxWaveSpeed the larger of the two maximum wave speeds (+infinity when both
\* are 0); it never exceeds the per-direction value.
C13_CommonSpeedTimestep ==
    LET blk == lastOp.blk
        sH == waveSpeeds[blk][1]
        sV == waveSpeeds[blk][2]
        maxWaveSpeed == Max(sH, sV)
        perDirection == FTimesCfl(FMin(FDiv(Ticks(dx), sH), FDiv(Ticks(dy), sV)))
    IN  lastOp.op = "computeNumericalFluxes" =>
            /\ maxTimestep[blk] =
                 (IF maxWaveSpeed = 0 THEN Inf
                  ELSE (4 * Min(dx, dy) * TimeDen) \div (10 * maxWaveSpeed))
            /\ FLeq(maxTimestep[blk], perDirection)

\* C13 witness: the time step was computed for dx < dy with the horizontal
\* wave speed smaller than the vertical one, and it is smaller than the
\* per-direction value
C13_Witness ==
    /\ lastOp.op = "computeNumericalFluxes"
    /\ dx < dy
    /\ waveSpeeds[lastOp.blk][1] > 0
    /\ waveSpeeds[lastOp.blk][1] < waveSpeeds[lastOp.blk][2]
    /\ FLess(maxTimestep[lastOp.blk],
             FTimesCfl(FMin(FDiv(Ticks(dx), waveSpeeds[lastOp.blk][1]),
                            FDiv(Ticks(dy), waveSpeeds[lastOp.blk][2]))))

\* raw index i lies in the non-corner ghost strip of edge e
InGhostStrip(e, i) ==
    IF e \in {"BND_LEFT", "BND_RIGHT"}
    THEN XOf(i) = GhostX(e, 0) /\ YOf(i) \in 1 .. ny
    ELSE YOf(i) = GhostY(e, 0) /\ XOf(i) \in 1 .. nx

\* C14: a processCopyLayer step on the receiver's edge e (the edge opposite to
\* msg->boundary) changes nothing when that edge is not CONNECT; when it is
\* CONNECT it changes h, hu, hv only in the non-corner ghost strip of e, and b
\* only there and only if the message contains the bathymetry; no other block
\* changes.
C14_ProcessCopyLayerFrame ==
    [][lastOp'.op = "processCopyLayer" =>
        LET blk == lastOp'.blk
            e == lastOp'.edge
            Same(f) == \A r \in Blocks : r # blk => f'[r] = f[r]
            Kept(f) == \A i \in 1 .. FieldLen : InGhostStrip(e, i) \/ f'[blk][i] = f[blk][i]
        IN  /\ Same(h) /\ Same(hu) /\ Same(hv) /\ Same(b)
            /\ IF boundaryType[blk][e] # "CONNECT"
               THEN /\ h'[blk] = h[blk]
                    /\ hu'[blk] = hu[blk]
                    /\ hv'[blk] = hv[blk]
                    /\ b'[blk] = b[blk]
               ELSE /\ Kept(h) /\ Kept(hu) /\ Kept(hv)
                    /\ IF lastOp'.bathymetry THEN Kept(b) ELSE b'[blk] = b[blk]]_vars

\* C14 witness: a copy layer was handed to processCopyLayer of a block whose
\* edge on that side is not CONNECT
C14_Witness ==
    /\ lastOp.op = "processCopyLayer"
    /\ boundaryType[lastOp.blk][lastOp.edge] # "CONNECT"
    /\ StripLen(lastOp.edge) >= 2

\* raw index i is one of the four corner ghost cells
InCorner(i) == XOf(i) \in {0, nx + 1} /\ YOf(i) \in {0, ny + 1}

\* C15 (frame): an applyBoundaryConditions step changes h, hu, hv only in the
\* four corners and in the non-corner ghost strips of WALL and OUTFLOW edges,
\* and changes neither b nor another block.
C15_BoundaryConditionsFrame ==
    [][lastOp'.op = "applyBoundaryConditions" =>
        LET blk == lastOp'.blk
            Owned(i) == \/ InCorner(i)
                        \/ \E e \in Edges : /\ boundaryType[blk][e] \in {"WALL", "OUTFLOW"}
                                            /\ InGhostStrip(e, i)
            Kept(f) == /\ \A i \in 1 .. FieldLen : Owned(i) \/ f'[blk][i] = f[blk][i]
                       /\ \A r \in Blocks : r # blk => f'[r] = f[r]
        IN  Kept(h) /\ Kept(hu) /\ Kept(hv) /\ b' = b]_vars

\* C15 (order): for a block with a copy layer waiting on an edge, unpacking
\* it and then applying the boundary conditions gives the same fields as
\* applying the boundary conditions and then unpacking it.
C15_BoundaryConditionsCommute ==
    \A blk \in Blocks, e \in Edges :
        inbox[blk][e] # << >> =>
            LET bt == boundaryType[blk]
                m == Head(inbox[blk][e]).msg
            IN  applyBoundaryConditions(processCopyLayer(Grid(blk), bt, m), bt)
                  = processCopyLayer(applyBoundaryConditions(Grid(blk), bt), bt, m)

\* C15: both of the above
C15_BoundaryConditionsOwnCells ==
    C15_BoundaryConditionsFrame /\ []C15_BoundaryConditionsCommute

\* C15 witness: the boundary conditions were applied to a block that has a
\* CONNECT edge with a copy layer waiting on it and a WALL or OUTFLOW edge
C15_Witness ==
    /\ lastOp.op = "applyBoundaryConditions"
    /\ \E e \in Edges : /\ boundaryType[lastOp.blk][e] = "CONNECT"
                        /\ inbox[lastOp.blk][e] # << >>
    /\ \E e \in Edges : boundaryType[lastOp.blk][e] \in {"WALL", "OUTFLOW"}
    /\ nx >= 2

GhostIsNeighbourInterior(blk, e) ==
    LET A == Neighbour(blk, e)
    IN  \A k \in 1 .. StripLen(e) :
            /\ GhostCell(h[blk], e, k) = InnerCell(h[A], Opposite(e), k)
            /\ GhostCell(hu[blk], e, k) = InnerCell(hu[A], Opposite(e), k)
            /\ GhostCell(hv[blk], e, k) = InnerCell(hv[A], Opposite(e), k)

\* C17, first part: a block about to run the sweeps of step k has made k - 1
\* updates, and so has the neighbour on each CONNECT edge; the copy layer it
\* unpacked there is the neighbour's for this step, and the ghost strip equals
\* the interior strip the neighbour holds.
C17_FreshAtComputeFlux ==
    \A blk \in Blocks, e \in Edges :
        (pc[blk] = "COMPUTE_FLUX" /\ boundaryType[blk][e] = "CONNECT") =>
            /\ stepCount[Neighbour(blk, e)] = stepCount[blk]
            /\ lastRecv[blk][e].seq = stepCount[blk] + 2
            /\ GhostIsNeighbourInterior(blk, e)

\* C17, second part: a block is ahead of another by at most one update, and
\* only of a block that has finished the sweeps of that step and waits for
\* the result of the reduction.
C17_ReductionIsBarrier ==
    \A blk \in Blocks, other \in Blocks :
        stepCount[blk] > stepCount[other] =>
            /\ stepCount[blk] = stepCount[other] + 1
            /\ pc[other] = "REDUCE_DT"

\* C17, third part: no step changes the ghost strip of a CONNECT edge of a
\* block whose sweeps or update of the current step are still to run.
C17_NoOverwriteDuringStep ==
    [][\A blk \in Blocks, e \in Edges :
          (pc[blk] \in {"COMPUTE_FLUX", "REDUCE_DT"} /\ boundaryType[blk][e] = "CONNECT") =>
              \A k \in 1 .. StripLen(e) :
                  /\ GhostCell(h'[blk], e, k) = GhostCell(h[blk], e, k)
                  /\ GhostCell(hu'[blk], e, k) = GhostCell(hu[blk], e, k)
                  /\ GhostCell(hv'[blk], e, k) = GhostCell(hv[blk], e, k)]_vars

\* C17: whenever a block begins COMPUTE_FLUX of step k, the ghost strips of its
\* CONNECT edges equal the interior strips the neighbours hold after k - 1
\* updates; the step counters of two blocks differ by at most one, no block
\* updates for step k before every block has finished the sweeps of step k,
\* and no ghost strip is overwritten while the sweeps or the update of the
\* step are outstanding.
C17_GhostFreshnessUnderSkew ==
    /\ []C17_FreshAtComputeFlux
    /\ []C17_ReductionIsBarrier
    /\ C17_NoOverwriteDuringStep

\* C17 witness: a block begins the sweeps of its second or a later step with a
\* ghost strip that is not the initial one, while the neighbour on that edge
\* has already finished its sweeps of the step and waits for the reduction
C17_Witness ==
    \E blk \in Blocks, e \in Edges :
        /\ pc[blk] = "COMPUTE_FLUX"
        /\ boundaryType[blk][e] = "CONNECT"
        /\ stepCount[blk] >= 1
        /\ pc[Neighbour(blk, e)] = "REDUCE_DT"
        /\ GhostIsNeighbourInterior(blk, e)
        /\ \E k \in 1 .. StripLen(e) :
             GhostCell(h[blk], e, k) #
                InnerCell(initScenario(Neighbour(blk, e), scenario,
                                       boundaries[Neighbour(blk, e)]).h, Opposite(e), k)

====
